---- MODULE Spec2Model ----
(***************************************************************************)
(* A model of depthify's session: the main window, the image viewer with   *)
(* its markers, the depth viewer with its samples and depth map, and the   *)
(* viewer of the composite depth image.                                     *)
(*                                                                          *)
(* Conventions: a QSize / image size is <<width, height>>; a numpy shape   *)
(* is <<rows, columns>>; a cell of an array is indexed <<row, column>>; a  *)
(* position is <<x, y>>; a sample is <<position, depth>>.  An exception     *)
(* that escapes a handler is recorded in last.raised; what the handler      *)
(* assigned before it was raised stays assigned.                            *)
(*                                                                          *)
(* The interpolation is computed in exact rational arithmetic (numerator    *)
(* and denominator), where the program computes in double precision.  Of    *)
(* several samples at one position Qhull keeps one as the vertex; which one *)
(* is fixed for a run (qhull_keep) and is either the first or the last.     *)
(* The padding bytes of a scan line, which createDepthImage reads when the  *)
(* width is no multiple of 4, hold any of PadBytes, one value per call.     *)
(***************************************************************************)
EXTENDS Integers, Sequences, FiniteSets

VARIABLES
    filepath,       \* MainWindow._filepath
    image,          \* MainWindow._image_viewer._image
    iv_points,      \* MainWindow._image_viewer._points (positions of the markers)
    dv_points,      \* MainWindow._depth_viewer._points
    image_size,     \* MainWindow._depth_viewer._image_size
    depth_map,      \* MainWindow._depth_viewer._depth_map
    composite,      \* MainWindow._depth_image_viewer._image
    qhull_keep,     \* which of several samples at one position Qhull keeps as the vertex
    last            \* the last handler that ran (other than to a dialog
                    \* closed without a path), and how it ended

vars == <<filepath, image, iv_points, dv_points, image_size, depth_map,
          composite, qhull_keep, last>>

----------------------------------------------------------------------------
(* Bounds and inputs of the model *)

\* the most samples held in a session with direct calls of addPoint: no
\* sample is added to this many
MaxPoints == 4

\* the most samples held in a session of clicks alone
MaxClicks == 5

\* image coordinates the user clicks at (no four of all the positions on one circle)
ClickPositions == {<<0, 0>>, <<2, 0>>, <<0, 2>>}

\* values the depth slider stands at when the user clicks (the slider's
\* range is 0 to 255)
SliderValues == {41}

\* arguments <<point, dist>> of a direct call addPoint(point, dist)
DistCalls == {<< <<0, 0>>, 120 >>, << <<1, 1>>, 300 >>}

\* files given to setImage, and the size of the image each holds
\* (<<0, 0>>: the file cannot be read as an image)
Files == {"a.png", "b.png", "missing.png"}

FileSize(path) ==
    CASE path = "a.png" -> <<4, 3>>
      [] path = "b.png" -> <<3, 3>>
      [] OTHER -> <<0, 0>>

\* the grey value of pixel <<row, column>> of the image a file holds
FilePixel(path, row, col) == IF path = "a.png" THEN 10 * row + col + 1
                                               ELSE 100 + 10 * row + col

\* values a byte that no pixel was written to may hold
PadBytes == {0, 255}

\* the values the padding of the scan lines of an image of this width may
\* hold (one value when there is no padding)
Pads(width) == IF width % 4 = 0 THEN {0} ELSE PadBytes

----------------------------------------------------------------------------
(* Values *)

None == "None"

NullImage == [null |-> TRUE, size |-> <<0, 0>>, file |-> ""]

NoneMap == [none |-> TRUE, shape |-> <<0, 0>>, cells |-> <<>>]

\* the cells of an array of the given shape
Cells(shape) == (0 .. shape[1] - 1) \X (0 .. shape[2] - 1)

\* the array of the given shape and cells
Array(shape, cells) == [none |-> FALSE, shape |-> shape, cells |-> cells]

\* QImage(filepath)
QImage(path) ==
    IF FileSize(path) = <<0, 0>> THEN NullImage
    ELSE [null |-> FALSE, size |-> FileSize(path), file |-> path]

NoError == "none"

----------------------------------------------------------------------------
(* scipy.interpolate.griddata(points, depths, (x, y), fill_value=255), the  *)
(* default method: linear barycentric interpolation on the Delaunay         *)
(* triangulation of the points                                              *)

\* twice the signed area of the triangle a, b, c
Orient(a, b, c) ==
    (b[1] - a[1]) * (c[2] - a[2]) - (b[2] - a[2]) * (c[1] - a[1])

SqDist(a, p) == (a[1] - p[1]) * (a[1] - p[1]) + (a[2] - p[2]) * (a[2] - p[2])

\* p lies strictly inside the circle through a, b, c (given counter-clockwise)
InCircle(a, b, c, p) ==
    LET ax == a[1] - p[1]  ay == a[2] - p[2]
        bx == b[1] - p[1]  by == b[2] - p[2]
        cx == c[1] - p[1]  cy == c[2] - p[2]
    IN  ax * (by * SqDist(c, p) - cy * SqDist(b, p))
        - ay * (bx * SqDist(c, p) - cx * SqDist(b, p))
        + SqDist(a, p) * (bx * cy - by * cx) > 0

Positions(points) == {points[i][1] : i \in DOMAIN points}

\* all the positions on one line (or in one place): Qhull cannot build the
\* initial simplex, and Delaunay raises QhullError
Degenerate(points) ==
    \A a, b, c \in Positions(points) : Orient(a, b, c) = 0

\* a before b, in the order of x and then y
Before(a, b) == a[1] < b[1] \/ (a[1] = b[1] /\ a[2] < b[2])

\* the triangle of a, b, c, counter-clockwise
Simplex(a, b, c) == IF Orient(a, b, c) > 0 THEN <<a, b, c>> ELSE <<a, c, b>>

\* the simplices of the triangulation: the triangles whose circumcircle
\* holds no position strictly inside, each once
Delaunay(V) ==
    UNION {IF /\ Before(a, b) /\ Before(b, c)
                 /\ Orient(a, b, c) # 0
                 /\ LET t == Simplex(a, b, c)
                    IN  \A p \in V : ~InCircle(t[1], t[2], t[3], p)
              THEN {Simplex(a, b, c)} ELSE {} : <<a, b, c>> \in V \X V \X V}

\* find_simplex: q lies in the closed triangle t
InSimplex(t, q) ==
    /\ Orient(q, t[2], t[3]) >= 0
    /\ Orient(t[1], q, t[3]) >= 0
    /\ Orient(t[1], t[2], q) >= 0

\* the value the interpolator holds at a vertex: of the samples at that
\* position the triangulation keeps one, the others are left out
VertexValue(points, v, keep) ==
    LET at == {i \in DOMAIN points : points[i][1] = v}
        i  == CHOOSE j \in at : \A k \in at : IF keep = "first" THEN j <= k ELSE j >= k
    IN  points[i][2]

\* the interpolated value at q, as <<numerator, denominator>>; the fill
\* value outside the convex hull of the positions
Interpolate(points, tris, q, keep) ==
    LET cand == {t \in tris : InSimplex(t, q)}
    IN  IF cand = {} THEN <<255, 1>>
        ELSE LET t == CHOOSE u \in cand : TRUE
             IN  << Orient(q, t[2], t[3]) * VertexValue(points, t[1], keep)
                    + Orient(t[1], q, t[3]) * VertexValue(points, t[2], keep)
                    + Orient(t[1], t[2], q) * VertexValue(points, t[3], keep),
                    Orient(t[1], t[2], t[3]) >>

\* z = griddata(...) on the meshgrid of the shape: z[row, col] is the value
\* at the point (x, y) = (col, row)
griddata(points, shape, keep) ==
    IF Degenerate(points)
    THEN [raised |-> "QhullError", z |-> <<>>]
    ELSE LET tris == Delaunay(Positions(points))
         IN  [raised |-> NoError,
              z |-> [c \in Cells(shape) |->
                        Interpolate(points, tris, <<c[2], c[1]>>, keep)]]

\* np.clip(z, 0, 255).astype(np.uint8) of one value: the cast drops the
\* fraction.  (ClipAsType_NoClip: the values stored as they are.)
ClipAsType_NoClip(z) == z[1] \div z[2]

ClipAsType(z) ==
    IF z[1] <= 0 THEN 0
    ELSE IF z[1] >= 255 * z[2] THEN 255
    ELSE z[1] \div z[2]

\* 255 * np.ones((height, width), np.uint8)
Blank(size) ==
    Array(<<size[2], size[1]>>, [c \in Cells(<<size[2], size[1]>>) |-> 255])

\* the least number of samples updateDepthMap interpolates
\* (MinPoints_Three: one fewer)
MinPoints_Three == 4 - 1

MinPoints == 4

\* DepthViewer.updateDepthMap: the depth map it leaves, and what it raised
updateDepthMap(points, size, old, keep) ==
    IF Len(points) < MinPoints
    THEN [raised |-> NoError, depth_map |-> Blank(size)]
    ELSE LET g == griddata(points, <<size[2], size[1]>>, keep)
         IN  IF g.raised # NoError
             THEN [raised |-> g.raised, depth_map |-> old]
             ELSE [raised |-> NoError,
                   depth_map |-> Array(<<size[2], size[1]>>,
                                       [c \in DOMAIN g.z |-> ClipAsType(g.z[c])])]

----------------------------------------------------------------------------
(* The widgets' methods *)

\* ImageWithPoints.addPoint; the marker's colour is left out
ImageWithPoints_addPoint(points, point) == Append(points, point)

\* ImageWithPoints.undoPoint: pop, IndexError caught
\* (ImageWithPoints_undoPoint_Keep: no marker is removed)
ImageWithPoints_undoPoint_Keep(points) == points

ImageWithPoints_undoPoint(points) ==
    IF points = <<>> THEN points ELSE SubSeq(points, 1, Len(points) - 1)

\* ImageWithPoints.clearPoints
ImageWithPoints_clearPoints(points) == <<>>

\* the list DepthViewer.addPoint leaves (before it updates the depth map)
\* (DepthViewer_addPoint_Front: the sample is put first)
DepthViewer_addPoint_Front(points, point, depth) ==
    <<<<point, depth>>>> \o points

DepthViewer_addPoint(points, point, depth) == Append(points, <<point, depth>>)

\* the list DepthViewer.clearPoints leaves (before it updates the depth map)
\* (DepthViewer_clearPoints_Keep: the list is not replaced)
DepthViewer_clearPoints_Keep(points) == points

DepthViewer_clearPoints(points) == <<>>

\* np.frombuffer(ptr, np.uint8).reshape(height, width) of the image
\* converted to Format_Grayscale8, ptr cut to height * width bytes: the
\* scan lines of a QImage are padded to a multiple of 4 bytes, so with a
\* width that is no multiple of 4 the array reads across the padding.
\* pad: the value of the padding bytes.
frombuffer(img, pad) ==
    LET w   == img.size[1]
        h   == img.size[2]
        bpl == 4 * ((w + 3) \div 4)
    IN  [c \in Cells(<<h, w>>) |->
            LET k == c[1] * w + c[2]
            IN  IF k % bpl < w THEN FilePixel(img.file, k \div bpl, k % bpl)
                               ELSE pad]

\* MainWindow.createDepthImage: the composite it leaves in the depth image
\* viewer, and what it raised.  bits() of a null image is None, and setsize
\* on it raises AttributeError; np.stack raises ValueError when the three
\* arrays do not have one shape.
\* (createDepthImage_Crop: the depth map is cut or padded to the image.)
createDepthImage_Crop(img, dmap, old, pad) ==
    IF img.null
    THEN [raised |-> "AttributeError", composite |-> old]
    ELSE LET shape == <<img.size[2], img.size[1]>>
         IN  [raised |-> NoError,
              composite |-> [null |-> FALSE, shape |-> shape,
                             dshape |-> IF dmap.none THEN shape ELSE dmap.shape,
                             ch0 |-> frombuffer(img, pad),
                             ch1 |-> [c \in Cells(shape) |->
                                        IF dmap.none \/ c \notin DOMAIN dmap.cells
                                        THEN 255 ELSE dmap.cells[c]],
                             ch2 |-> [c \in Cells(shape) |-> 0]]]

createDepthImage(img, dmap, old, pad) ==
    IF img.null
    THEN [raised |-> "AttributeError", composite |-> old]
    ELSE LET shape == <<img.size[2], img.size[1]>>
             dpth  == IF dmap.none
                      THEN Array(shape, [c \in Cells(shape) |-> 255])
                      ELSE dmap
         IN  IF dpth.shape # shape
             THEN [raised |-> "ValueError", composite |-> old]
             ELSE [raised |-> NoError,
                   composite |-> [null |-> FALSE, shape |-> shape,
                                  dshape |-> dpth.shape,
                                  ch0 |-> frombuffer(img, pad),
                                  ch1 |-> dpth.cells,
                                  ch2 |-> [c \in Cells(shape) |-> 0]]]

NullComposite ==
    [null |-> TRUE, shape |-> <<0, 0>>, dshape |-> <<0, 0>>,
     ch0 |-> <<>>, ch1 |-> <<>>, ch2 |-> <<>>]

----------------------------------------------------------------------------
(* The state after construction *)

\* DepthViewer.__init__: QSize(50, 50)
DefaultSize == 50

\* what `last` records: the handler, the number of samples it started
\* with, the exception that escaped it, the error message it showed, the
\* size updateDepthMap ran with (<<>>: it did not run), whether
\* createDepthImage ran, and the array written to a file.  prior: after an
\* undo that removed a sample, the sample, and the samples and the depth map
\* held before it; after an add of that sample right after the undo, the
\* same; otherwise <<>>
Last(op, raised, reported, synth, composed, wrote) ==
    [op |-> op, before |-> Len(dv_points), raised |-> raised,
     reported |-> reported, synth |-> synth, composed |-> composed,
     wrote |-> wrote, prior |-> <<>>]

Init ==
    /\ filepath = None
    /\ image = NullImage
    /\ iv_points = <<>>
    /\ dv_points = <<>>
    /\ image_size = <<DefaultSize, DefaultSize>>
    /\ depth_map = NoneMap
    /\ composite = NullComposite
    /\ qhull_keep \in {"first", "last"}
    /\ last = [op |-> "init", before |-> 0, raised |-> NoError,
               reported |-> "none", synth |-> <<>>, composed |-> FALSE,
               wrote |-> <<>>, prior |-> <<>>]

----------------------------------------------------------------------------
(* The handlers of the main window *)

\* MainWindow.clear: what it leaves of the markers, the samples and the
\* depth map (the three images are cleared)
MainWindow_clear(ivp, dvp, size, old, keep) ==
    LET pts == DepthViewer_clearPoints(dvp)
    IN  [iv_points |-> ImageWithPoints_clearPoints(ivp),
         dv_points |-> pts,
         update    |-> updateDepthMap(pts, size, old, keep)]

\* MainWindow.setImage(filepath): clear() runs with the size of the image
\* before, then the new image and its size are set; the depth map is not
\* updated again
setImage(path) ==
    LET c == MainWindow_clear(iv_points, dv_points, image_size, depth_map,
                              qhull_keep)
    IN  /\ iv_points' = c.iv_points
        /\ dv_points' = c.dv_points
        /\ depth_map' = c.update.depth_map
        /\ composite' = NullComposite
        /\ filepath' = path
        /\ image' = QImage(path)
        /\ image_size' = image'.size
        /\ last' = Last("setImage", c.update.raised, "none", <<image_size>>,
                        FALSE, <<>>)
        /\ UNCHANGED qhull_keep

\* the rest of a handler once the lists are changed: DepthViewer updates the
\* depth map (updated: what that call leaves, computed once), and unless
\* that raised, createDepthImage runs
Recompute(op, updated, synth, prior) ==
    \E update \in {updated} :
        /\ depth_map' = update.depth_map
        /\ IF update.raised # NoError
           THEN /\ composite' = composite
                /\ last' = [Last(op, update.raised, "none", synth, FALSE, <<>>)
                               EXCEPT !.prior = prior]
           ELSE \E pad \in Pads(image.size[1]) :
                   LET c == createDepthImage(image, update.depth_map,
                                             composite, pad)
                   IN  /\ composite' = c.composite
                       /\ last' = [Last(op, c.raised, "none", synth, TRUE, <<>>)
                                      EXCEPT !.prior = prior]

\* MainWindow.addPoint(point, dist), dist given or read from the slider
addPoint(point, dist) ==
    /\ iv_points' = ImageWithPoints_addPoint(iv_points, point)
    /\ dv_points' = DepthViewer_addPoint(dv_points, point, dist)
    /\ Recompute("addPoint",
                 updateDepthMap(dv_points', image_size, depth_map, qhull_keep),
                 <<image_size>>,
                 IF /\ last.op = "undoPoint"
                    /\ last.prior # <<>>
                    /\ last.prior[1].removed = <<point, dist>>
                 THEN last.prior ELSE <<>>)
    /\ UNCHANGED <<filepath, image, image_size, qhull_keep>>

\* ClickableImageViewer.mousePressEvent: clicked_img is emitted, and with it
\* MainWindow.addPoint(point) runs, unless the image is null
\* (mousePressEvent_Always: it runs with a null image too)
mousePressEvent_Always(point) ==
    \E value \in SliderValues : addPoint(point, value)

mousePressEvent(point) ==
    /\ ~image.null
    /\ \E value \in SliderValues : addPoint(point, value)

\* MainWindow.undoPoint
undoPoint ==
    /\ iv_points' = ImageWithPoints_undoPoint(iv_points)
    /\ IF dv_points = <<>>
       THEN \* DepthViewer.undoPoint: pop raises IndexError, caught
            /\ dv_points' = dv_points
            /\ Recompute("undoPoint",
                         [raised |-> NoError, depth_map |-> depth_map], <<>>,
                         <<>>)
       ELSE /\ dv_points' = SubSeq(dv_points, 1, Len(dv_points) - 1)
            /\ Recompute("undoPoint",
                         updateDepthMap(dv_points', image_size, depth_map,
                                        qhull_keep),
                         <<image_size>>,
                         <<[removed |-> dv_points[Len(dv_points)],
                            points |-> dv_points,
                            depth_map |-> depth_map]>>)
    /\ UNCHANGED <<filepath, image, image_size, qhull_keep>>

\* MainWindow.clearPoints
clearPoints ==
    /\ iv_points' = ImageWithPoints_clearPoints(iv_points)
    /\ dv_points' = DepthViewer_clearPoints(dv_points)
    /\ Recompute("clearPoints",
                 updateDepthMap(dv_points', image_size, depth_map, qhull_keep),
                 <<image_size>>, <<>>)
    /\ UNCHANGED <<filepath, image, image_size, qhull_keep>>

\* QImage.save: nothing is written of a null image; otherwise the file
\* holds the raster of that shape (its cells are those of the depth map or
\* of the composite, which the export leaves as they are)
Saved(kind, null, shape) ==
    IF null \/ shape[1] = 0 \/ shape[2] = 0 THEN <<>>
    ELSE <<[kind |-> kind, shape |-> shape]>>

\* MainWindow.exportDepthMap; confirm: the user gives a path in the dialog
\* (a dialog closed without a path leaves nothing, and no record in last)
exportDepthMap(confirm) ==
    /\ last' =
         IF filepath = None
         THEN Last("exportDepthMap", NoError, "No image file is currently set.",
                   <<>>, FALSE, <<>>)
         ELSE IF ~confirm
         THEN last
         ELSE IF depth_map.none
         THEN Last("exportDepthMap", "AttributeError", "none", <<>>, FALSE, <<>>)
         ELSE Last("exportDepthMap", NoError, "none", <<>>, FALSE,
                   Saved("map", FALSE, depth_map.shape))
    /\ UNCHANGED <<filepath, image, iv_points, dv_points, image_size,
                   depth_map, composite, qhull_keep>>

\* MainWindow.saveDepthImage
saveDepthImage(confirm) ==
    /\ last' =
         IF filepath = None
         THEN Last("saveDepthImage", NoError, "No image file is currently set.",
                   <<>>, FALSE, <<>>)
         ELSE IF ~confirm
         THEN last
         ELSE Last("saveDepthImage", NoError, "none", <<>>, FALSE,
                   Saved("composite", composite.null, composite.shape))
    /\ UNCHANGED <<filepath, image, iv_points, dv_points, image_size,
                   depth_map, composite, qhull_keep>>

Next ==
    \/ \E path \in Files : setImage(path)
    \/ \E point \in ClickPositions :
          Len(dv_points) < MaxPoints /\ mousePressEvent(point)
    \/ \E call \in DistCalls :
          Len(dv_points) < MaxPoints /\ addPoint(call[1], call[2])
    \/ undoPoint
    \/ clearPoints
    \/ \E confirm \in BOOLEAN : exportDepthMap(confirm)
    \/ \E confirm \in BOOLEAN : saveDepthImage(confirm)

Spec == Init /\ [][Next]_vars

\* the session driven through the window alone: addPoint runs only as the
\* slot of clicked_img
NextGui ==
    \/ \E path \in Files : setImage(path)
    \/ \E point \in ClickPositions :
          Len(dv_points) < MaxClicks /\ mousePressEvent(point)
    \/ undoPoint
    \/ clearPoints
    \/ \E confirm \in BOOLEAN : exportDepthMap(confirm)
    \/ \E confirm \in BOOLEAN : saveDepthImage(confirm)

SpecGui == Init /\ [][NextGui]_vars

----------------------------------------------------------------------------
(* Properties *)

\* the shape of an array over the pixels of an image of the given size
ShapeOf(size) == <<size[2], size[1]>>

\* an array of the shape whose cells all hold v
Uniform(m, shape, v) ==
    /\ ~m.none
    /\ m.shape = shape
    /\ DOMAIN m.cells = Cells(shape)
    /\ \A c \in DOMAIN m.cells : m.cells[c] = v

\* no two samples at one position
DistinctPositions(points) ==
    \A i, j \in DOMAIN points : points[i][1] = points[j][1] => i = j

\* C1: whenever the depth map is recomputed with fewer than 4 samples held
\* (0 to 3, also by clear), the depth map has height rows and width columns
\* of the size it was computed for, every cell is 255, and in add, undo and
\* clear that size is the depth viewer's current image size.
C1_BlankBelowFourSamples ==
    (last.synth # <<>> /\ Len(dv_points) < 4) =>
        /\ Uniform(depth_map, ShapeOf(last.synth[1]), 255)
        /\ last.op # "setImage" => last.synth[1] = image_size

\* an undo that left three samples not on one line, of four that were
\* interpolated
C1_Witness ==
    /\ last.op = "undoPoint"
    /\ last.before = 4
    /\ Len(dv_points) = 3
    /\ ~Degenerate(dv_points)
    /\ ~image.null

\* C2: undo or clear invoked while the sample set is empty raises nothing
\* and leaves the sample set empty, in every state of a session.
C2_EmptyUndoClearRaisesNothing ==
    (last.op \in {"undoPoint", "clearPoints"} /\ last.before = 0) =>
        /\ last.raised = NoError
        /\ dv_points = <<>>
        /\ iv_points = <<>>

\* C3: while a source image is loaded, the stored depth map has the pixel
\* dimensions of the loaded image.
C3_DepthMapHasImageSize ==
    ~image.null => (~depth_map.none /\ depth_map.shape = ShapeOf(image.size))

\* C4: while no source image is loaded, exportDepthMap and saveDepthImage
\* show the no-image error and write no file.
C4_NoImageExportAborts ==
    (last.op \in {"exportDepthMap", "saveDepthImage"} /\ image.null) =>
        /\ last.reported = "No image file is currently set."
        /\ last.wrote = <<>>

\* C5: with 4 or more samples whose positions are all on one line or in one
\* place, add and undo raise nothing and leave the uniform depth map of 255.
C5_DegenerateFallsBackToBlank ==
    (/\ last.op \in {"addPoint", "undoPoint"}
     /\ Len(dv_points) >= 4
     /\ Degenerate(dv_points)) =>
        /\ last.raised # "QhullError"
        /\ Uniform(depth_map, ShapeOf(image_size), 255)

\* C6: loading an image, valid or not, leaves the depth viewer's sample list
\* and the image viewer's marker list empty, whatever was held before.
C6_LoadEmptiesSamples ==
    last.op = "setImage" => (dv_points = <<>> /\ iv_points = <<>>)

\* an image that cannot be read, loaded over a full sample set
C6_Witness ==
    /\ last.op = "setImage"
    /\ last.before = MaxPoints
    /\ image.null
    /\ dv_points = <<>>
    /\ iv_points = <<>>

\* createDepthImage ran on a source image and a depth map of different
\* dimensions
Mismatched ==
    /\ last.composed
    /\ ~image.null
    /\ ~depth_map.none
    /\ depth_map.shape # ShapeOf(image.size)

C8_CellsInRange ==
    ~depth_map.none =>
        /\ DOMAIN depth_map.cells = Cells(depth_map.shape)
        /\ \A c \in DOMAIN depth_map.cells : depth_map.cells[c] \in 0 .. 255

\* a depth map interpolated from samples one of which holds a depth above
\* 255, with a cell between the samples' depths
C8_Witness ==
    /\ last.op = "addPoint"
    /\ last.raised = NoError
    /\ Len(dv_points) >= 4
    /\ \E i \in DOMAIN dv_points : dv_points[i][2] > 255
    /\ \E c \in DOMAIN depth_map.cells :
          /\ depth_map.cells[c] # 255
          /\ \A i \in DOMAIN dv_points : depth_map.cells[c] # dv_points[i][2]

\* C9: the depth of every sample held is within 0..255 (add clamps it).
C9_StoredDepthClamped ==
    \A i \in DOMAIN dv_points : dv_points[i][2] \in 0 .. 255

\* C10: with at least 4 samples, not all on one line and no two in one
\* place, the depth map holds at the pixel of every sample inside the grid
\* that sample's depth.
C10_ExactAtSamples ==
    (/\ Len(dv_points) >= 4
     /\ ~Degenerate(dv_points)
     /\ DistinctPositions(dv_points)
     /\ ~depth_map.none) =>
        \A i \in DOMAIN dv_points :
            LET c == <<dv_points[i][1][2], dv_points[i][1][1]>>
            IN  c \in DOMAIN depth_map.cells =>
                    depth_map.cells[c] = dv_points[i][2]

\* C11: an undo that removed a sample, followed at once by an add of that
\* sample (same position, same depth), leaves the sample sequence and the
\* depth map that were held before the undo.
C11_UndoAddRestores ==
    (last.op = "addPoint" /\ last.prior # <<>>) =>
        /\ dv_points = last.prior[1].points
        /\ depth_map = last.prior[1].depth_map

\* the grey values of the pixels of the image, by <<row, column>>
Luminance(img) ==
    [c \in Cells(ShapeOf(img.size)) |-> FilePixel(img.file, c[1], c[2])]

\* C12: after every add, undo and clear on a loaded image, the depth map is
\* the one updateDepthMap computes from the samples held at the current
\* image size, and the composite holds the grey values of the source in
\* channel 0, that depth map in channel 1 and zeros in channel 2.
C12_DerivedStateFresh ==
    (last.op \in {"addPoint", "undoPoint", "clearPoints"} /\ ~image.null) =>
        LET u == updateDepthMap(dv_points, image_size, depth_map, qhull_keep)
        IN  /\ u.raised = NoError
            /\ depth_map = u.depth_map
            /\ ~composite.null
            /\ composite.shape = ShapeOf(image.size)
            /\ composite.ch0 = Luminance(image)
            /\ composite.ch1 = depth_map.cells
            /\ composite.ch2 = [c \in Cells(composite.shape) |-> 0]

\* the samples the session adds: a click's position with the slider's value,
\* or the arguments of a direct call
Samples ==
    {<<point, value>> : point \in ClickPositions, value \in SliderValues}
        \cup DistCalls

\* one step of the sample list as a stack: an add puts one sample last, an
\* undo takes the last one away (none of none), clear and load take all
\* away, and every other step leaves the list as it is
StackStep ==
    CASE last'.op = "addPoint" ->
            \E s \in Samples : dv_points' = Append(dv_points, s)
      [] last'.op = "undoPoint" ->
            IF dv_points = <<>> THEN dv_points' = <<>>
            ELSE /\ Len(dv_points') = Len(dv_points) - 1
                 /\ \A i \in DOMAIN dv_points' : dv_points'[i] = dv_points[i]
      [] last'.op \in {"clearPoints", "setImage"} -> dv_points' = <<>>
      [] OTHER -> dv_points' = dv_points

\* C13: the sample list is a stack in the order of adding: every add
\* appends its sample and changes nothing before it, every undo on a
\* non-empty list removes the last sample and nothing else, every clear
\* removes all, whether or not the step ends in an exception.
C13_SamplesAreAStack == [][StackStep]_vars

\* an undo that took the last of four samples, leaving three different ones
C13_Witness ==
    /\ last.op = "undoPoint"
    /\ last.before = 4
    /\ Len(dv_points) = 3
    /\ dv_points[1] # dv_points[2]
    /\ dv_points[2] # dv_points[3]
    /\ dv_points[1] # dv_points[3]
    /\ last.prior # <<>>
    /\ last.prior[1].removed # dv_points[3]

\* C14: in every state of a session of loads, adds, undos and clears, also
\* after a handler that ended in an exception, the marker list and the
\* sample list have one length and the i-th marker is at the position of
\* the i-th sample.
C14_MarkersMatchSamples ==
    /\ Len(iv_points) = Len(dv_points)
    /\ \A i \in DOMAIN dv_points : iv_points[i] = dv_points[i][1]

\* an add or an undo that ended in QhullError part-way (the lists were
\* changed, the depth map was not updated), with markers at different
\* positions held
C14_Witness ==
    /\ last.op \in {"addPoint", "undoPoint"}
    /\ last.raised = "QhullError"
    /\ Len(iv_points) = 4
    /\ \E i, j \in DOMAIN iv_points : iv_points[i] # iv_points[j]

\* C15: in a session of clicks, loads, undos and clears, whenever samples
\* are held a source image that is not null is loaded.
C15_SamplesImplyImage ==
    dv_points # <<>> => ~image.null

\* a click on a loaded image added a sample to those held
C15_Witness ==
    /\ last.op = "addPoint"
    /\ last.before > 0
    /\ Len(dv_points) = last.before + 1
    /\ ~image.null

====
